---- MODULE Spec2Model ----
(***************************************************************************)
(* Candidate-position allocation pipeline of the recruitment system:       *)
(* resume processing (RecruitmentService.process_resume and the LangGraph  *)
(* resume workflow), position creation with its reallocation sweep, and    *)
(* manual reassignment, over the relational store of models.py.            *)
(***************************************************************************)
EXTENDS Integers, Sequences, FiniteSets, Bags, TLC

VARIABLES
    positions,      \* table positions: sequence of names, position_id = index
    candidates,     \* table candidates: sequence of rows, candidate_id = index
    matches,        \* table candidate_position_match, match_id = index
    history,        \* table position_allocation_history
    versions,       \* table candidate_version: sequence of candidate ids
    audit,          \* table audit_log: the bag of committed rows (log_id and
                    \* timestamp left out)
    pendingAudit,   \* AuditLog rows the agent's session holds uncommitted
    result,         \* what the last operation returned to its caller
    run,            \* the inputs of the last operation when it was a resume
                    \* run: its faults and the replies of the reasoning service
    reasoning,      \* what the reasoning service answers to the match-intention
                    \* questions of the last operation, per scanned candidate
    units,          \* the create_position requests that run concurrently,
                    \* each in a session of its own
    evalCall,       \* a call of evaluate_candidate_for_position on its own:
                    \* the reply it gets, what it returns, what step 5 of
                    \* process_resume keeps of it, and the match row step 7
                    \* makes of it
    extraction,     \* a call of extract_candidate_info on its own: what the
                    \* name patterns find in the text, and the profile it
                    \* returns
    upload          \* an upload request whose process_resume is under way in
                    \* a session of its own: how far it is, and the positions
                    \* its step 1 has loaded

vars == <<positions, candidates, matches, history, versions, audit,
          pendingAudit, result, run, reasoning, units, evalCall,
          extraction, upload>>

----------------------------------------------------------------------------
(* Bounds of the model *)

MaxCandidates == 1
MaxPositions == 2
MaxManual == 1
\* positions in the runs with concurrent creations
MaxConcPositions == 3

(* Values *)

None == "None"
\* the id of no row (ids are assigned from 1)
NoId == 0
\* names of the positions that get created, and the names candidates state
\* as their intention ("FE" is a position nobody creates)
Names == {"DE", "BE"}
IntentionNames == Names \cup {"FE"}
Grades == {"A", "B", "C", "D"}

\* confidences are kept in tenths: 5 is 0.5, 8 is 0.8, 9 is 0.9
ConfidenceThreshold == 8

Raise == [kind |-> "raise"]
Text == [kind |-> "text"]

----------------------------------------------------------------------------
(* Reasoning-service replies.  A reply is a raised call ("raise"), free    *)
(* text holding no JSON object ("text"), or a JSON object ("json").        *)

EvalReply(s, g) == [kind |-> "json", overall_score |-> s, grade |-> g]
IntentionReply(h, n) == [kind |-> "json", has_explicit_position |-> h, explicit_position |-> n]
MatchReply(m, c) == [kind |-> "json", match |-> m, confidence |-> c]

RunEvalReplies == {Raise, EvalReply(90, "D")}

\* a JSON object whose overall_score is missing or is no number
UnscoredReply(g) == [kind |-> "unscored", grade |-> g]

\* the replies to an evaluation call made on its own
MinReplyScore == -2
MaxReplyScore == 102
EvaluateReplies ==
    {Raise, Text}
        \cup {UnscoredReply(g) : g \in Grades}
        \cup {EvalReply(s, g) : s \in MinReplyScore..MaxReplyScore, g \in Grades}

RunIntentionReplies ==
    {Raise, Text, IntentionReply(FALSE, None)}
        \cup {IntentionReply(TRUE, n) : n \in IntentionNames}

RunMatchReplies ==
    {Raise, Text, MatchReply(FALSE, 9), MatchReply(TRUE, 5),
     MatchReply(TRUE, 8), MatchReply(TRUE, 9)}

----------------------------------------------------------------------------
(* LLMService *)

Clamp(s) == IF s < 0 THEN 0 ELSE IF s > 100 THEN 100 ELSE s

\* variant: a passing score gets grade C and a failing one grade D
GradeOfPassFail(score) == IF score >= 60 THEN "C" ELSE "D"

GradeOf(score) ==
    IF score >= 86 THEN "A"
    ELSE IF score >= 76 THEN "B"
    ELSE IF score >= 60 THEN "C"
    ELSE "D"

\* variant: the grade the reply proposes is kept
EvaluateKeepingProposedGrade(reply) ==
    IF reply.kind = "raise" THEN Raise
    ELSE LET raw == IF reply.kind = "json" THEN reply.overall_score ELSE 50
             score == Clamp(raw)
         IN  [kind |-> "ok", overall_score |-> score,
              grade |-> IF reply.kind = "text" THEN "D" ELSE reply.grade]

\* evaluate_candidate_for_position: the call raises, or the reply is parsed
\* (default score 50 when it holds no JSON object), the score is clamped to
\* 0..100 and the grade is derived from the score
EvaluateCandidateForPosition(reply) ==
    IF reply.kind = "raise" THEN Raise
    ELSE LET raw == IF reply.kind = "json" THEN reply.overall_score ELSE 50
             score == Clamp(raw)
         IN  [kind |-> "ok", overall_score |-> score, grade |-> GradeOf(score)]

\* the value the defaults of extract_candidate_info give to a missing name
Placeholder == "JobSeeker"

\* what a name pattern captures in a text: a name, or None when the
\* pattern does not match
FoundNames == {"Li", "Wang", Placeholder}
NamePatternCount == 3

\* the first capture among the name patterns, tried in their order from
\* pattern i on; None when none matches
RECURSIVE FirstPatternName(_, _)
FirstPatternName(patterns, i) ==
    IF i > Len(patterns) THEN None
    ELSE IF patterns[i] # None THEN patterns[i]
    ELSE FirstPatternName(patterns, i + 1)

\* result.setdefault(key, value) on a profile in which the key is set,
\* be it to None: the value held is kept
SetDefault(held, value) == held

\* extract_candidate_info, as far as the name and the quality go: the name
\* is set to None, then to the capture of the first pattern that matches,
\* then, when still empty, to a word of the line after the "basic
\* information" heading; the defaults are applied last
ExtractCandidateInfo(found) ==
    LET by_pattern == FirstPatternName(found.patterns, 1)
        searched == IF by_pattern # None THEN by_pattern ELSE found.basic_info
        name == SetDefault(searched, Placeholder)
    IN  [name |-> name,
         extraction_quality |-> IF name # Placeholder THEN 75 ELSE 50]

\* analyze_job_intention: the call raises, or the reply is parsed (default
\* "no explicit position" when it holds no JSON object)
AnalyzeJobIntention(reply) ==
    IF reply.kind = "raise" THEN Raise
    ELSE IF reply.kind = "json"
         THEN [kind |-> "ok",
               has_explicit_position |-> reply.has_explicit_position,
               explicit_position |-> reply.explicit_position]
         ELSE [kind |-> "ok", has_explicit_position |-> FALSE,
               explicit_position |-> None]

----------------------------------------------------------------------------
(* Store helpers *)

PositionIds == 1..Len(positions)
CandidateIds == 1..Len(candidates)

\* query(Position).filter(Position.name == n).first(): the id or None
PositionByName(n) ==
    IF \E p \in PositionIds : positions[p] = n
    THEN CHOOSE p \in PositionIds : positions[p] = n
    ELSE NoId

NoResult == [op |-> "none", status |-> "none", code |-> None,
             candidate_id |-> NoId, position_id |-> NoId,
             changes |-> <<>>, errors |-> {}]

\* the inputs of a resume run: whether the PDF could be parsed, whether the
\* profile extraction returned, whether the profile holds a name, whether a
\* write to the store fails, and what the reasoning service replied to the
\* intention question and to the evaluation of each active position
RunOf(pdfOk, extractOk, nameFound, dbFails, intentionReply, evalReplies) ==
    [pdfOk |-> pdfOk, extractOk |-> extractOk, nameFound |-> nameFound,
     dbFails |-> dbFails, intention |-> intentionReply, evals |-> evalReplies]

\* the last operation was no resume run
NoRun == RunOf(TRUE, TRUE, TRUE, FALSE, [kind |-> "none"], <<>>)

\* no call of evaluate_candidate_for_position is being looked at on its own
NoCall == [kind |-> "none"]
NoEvaluation ==
    [reply |-> NoCall, returned |-> NoCall, kept |-> NoCall, row |-> NoCall]

\* no call of extract_candidate_info is being looked at on its own
NoExtraction == [found |-> NoCall, profile |-> NoCall]

\* no process_resume is under way between its steps
IdleUpload == [pc |-> "idle", seen |-> 0]

ErrorResult(op, code) ==
    [NoResult EXCEPT !.op = op, !.status = "error", !.code = code]

AuditRow(action, cid, pid) ==
    [action |-> action, candidate_id |-> cid, position_id |-> pid]

BagOfRows(rows) ==
    [r \in {rows[i] : i \in DOMAIN rows} |->
        Cardinality({i \in DOMAIN rows : rows[i] = r})]

\* The web routes run a handler in a session of its own (get_db) that is
\* closed when the request ends; the agent runs its tools in one session
\* that lives as long as the agent ("agent").

\* session.commit(): the rows the session holds, the AuditLog rows added
\* since its last commit included, become committed
CommittedAudit(via) ==
    IF via = "agent" THEN audit (+) BagOfRows(pendingAudit) ELSE audit

\* the rows the session holds uncommitted once the handler has returned,
\* rows being what it added after its last commit
HeldAudit(via, rows) == IF via = "agent" THEN rows ELSE pendingAudit

\* session.rollback(), or a failed flush
RolledBackAudit(via) == IF via = "agent" THEN <<>> ELSE pendingAudit

----------------------------------------------------------------------------
(* Allocation decision *)

RECURSIVE FindBestFrom(_, _, _, _)
FindBestFrom(evals, p, best_pos_id, best_score) ==
    IF p \notin DOMAIN evals THEN <<best_pos_id, best_score>>
    ELSE IF evals[p].overall_score > best_score
         THEN FindBestFrom(evals, p + 1, p, evals[p].overall_score)
         ELSE FindBestFrom(evals, p + 1, best_pos_id, best_score)

\* variant: the first evaluated position is returned, whatever the scores
FindFirstPosition(evals) ==
    IF DOMAIN evals = {} THEN <<NoId, 0>>
    ELSE <<1, evals[1].overall_score>>

\* variant: of the positions that share the highest score the last one is
\* returned
FindLastBestPosition(evals) ==
    IF DOMAIN evals = {} THEN <<NoId, 0>>
    ELSE LET best == CHOOSE p \in DOMAIN evals :
                         /\ \A q \in DOMAIN evals :
                                evals[q].overall_score <= evals[p].overall_score
                         /\ \A q \in DOMAIN evals :
                                q > p => evals[q].overall_score
                                             < evals[p].overall_score
         IN  <<best, evals[best].overall_score>>

\* _find_best_position: the evaluations are visited in the order they were
\* inserted, which is the order of the positions query
FindBestPosition(evals) ==
    IF DOMAIN evals = {} THEN <<NoId, 0>>
    ELSE FindBestFrom(evals, 1, NoId, -1)

\* variant: a raised evaluation is given the lowest passing score
EvaluationsRaisedPass(evalReplies) ==
    [p \in DOMAIN evalReplies |->
        LET r == EvaluateCandidateForPosition(evalReplies[p])
        IN  IF r.kind = "raise"
            THEN [overall_score |-> 60, grade |-> "C"]
            ELSE [overall_score |-> r.overall_score, grade |-> r.grade]]

\* step 5 of process_resume: one evaluation per active position, score 0
\* and grade D where the call raised
Evaluations(evalReplies) ==
    [p \in DOMAIN evalReplies |->
        LET r == EvaluateCandidateForPosition(evalReplies[p])
        IN  IF r.kind = "raise"
            THEN [overall_score |-> 0, grade |-> "D"]
            ELSE [overall_score |-> r.overall_score, grade |-> r.grade]]

\* variant: a raised classification is replaced by an intention for a
\* position nobody creates
IntentionOrUnknownPosition(intentionReply) ==
    LET r == AnalyzeJobIntention(intentionReply)
    IN  IF r.kind = "raise"
        THEN [has_explicit_position |-> TRUE, explicit_position |-> "FE"]
        ELSE [has_explicit_position |-> r.has_explicit_position,
              explicit_position |-> r.explicit_position]

\* step 4 of process_resume: a raised classification is replaced by the
\* "no explicit position" default
IntentionOrDefault(intentionReply) ==
    LET r == AnalyzeJobIntention(intentionReply)
    IN  IF r.kind = "raise"
        THEN [has_explicit_position |-> FALSE, explicit_position |-> None]
        ELSE [has_explicit_position |-> r.has_explicit_position,
              explicit_position |-> r.explicit_position]

\* variant: every candidate that is not locked is marked as waiting
AllocationDecisionAlwaysPending(intention, evals) ==
    LET best == FindBestPosition(evals)
        explicit_pos == PositionByName(intention.explicit_position)
    IN  IF intention.has_explicit_position /\ explicit_pos # NoId
        THEN [auto_matched_position |-> positions[explicit_pos],
              auto_matched_position_score |-> evals[explicit_pos].overall_score,
              is_position_locked |-> TRUE,
              no_matched_position |-> FALSE]
        ELSE [auto_matched_position |-> positions[best[1]],
              auto_matched_position_score |-> best[2],
              is_position_locked |-> FALSE,
              no_matched_position |-> TRUE]

\* variant: the locked candidate keeps the score of the best position
AllocationDecisionBestScore(intention, evals) ==
    LET best == FindBestPosition(evals)
        explicit_pos == PositionByName(intention.explicit_position)
    IN  IF intention.has_explicit_position /\ explicit_pos # NoId
        THEN [auto_matched_position |-> positions[explicit_pos],
              auto_matched_position_score |-> best[2],
              is_position_locked |-> TRUE,
              no_matched_position |-> FALSE]
        ELSE [auto_matched_position |-> positions[best[1]],
              auto_matched_position_score |-> best[2],
              is_position_locked |-> FALSE,
              no_matched_position |-> intention.has_explicit_position]

\* variant: the best-fit assignment of a candidate without intention is
\* locked
AllocationDecisionLockBest(intention, evals) ==
    LET best == FindBestPosition(evals)
        explicit_pos == PositionByName(intention.explicit_position)
    IN  IF intention.has_explicit_position /\ explicit_pos # NoId
        THEN [auto_matched_position |-> positions[explicit_pos],
              auto_matched_position_score |-> evals[explicit_pos].overall_score,
              is_position_locked |-> TRUE,
              no_matched_position |-> FALSE]
        ELSE [auto_matched_position |-> positions[best[1]],
              auto_matched_position_score |-> best[2],
              is_position_locked |-> ~intention.has_explicit_position,
              no_matched_position |-> intention.has_explicit_position]

\* step 6 of process_resume
AllocationDecision(intention, evals) ==
    LET best == FindBestPosition(evals)
        best_name == IF best[1] # NoId THEN positions[best[1]] ELSE None
        explicit_pos == PositionByName(intention.explicit_position)
    IN  IF intention.has_explicit_position /\ explicit_pos # NoId
        THEN [auto_matched_position |-> positions[explicit_pos],
              auto_matched_position_score |->
                  IF explicit_pos \in DOMAIN evals
                  THEN evals[explicit_pos].overall_score ELSE 60,
              is_position_locked |-> TRUE,
              no_matched_position |-> FALSE]
        ELSE [auto_matched_position |-> best_name,
              auto_matched_position_score |-> best[2],
              is_position_locked |-> FALSE,
              no_matched_position |-> intention.has_explicit_position]

----------------------------------------------------------------------------
(* Persistence of a processed resume *)

CandidateRow(intention, decision) ==
    [has_explicit_position |-> intention.has_explicit_position,
     explicit_position |-> intention.explicit_position,
     no_matched_position |-> decision.no_matched_position,
     auto_matched_position |-> decision.auto_matched_position,
     auto_matched_position_score |-> decision.auto_matched_position_score,
     is_position_locked |-> decision.is_position_locked,
     reallocation_count |-> 0]

\* variant: a match row is flagged as qualified from score 61 on
MatchRowQualifiedAboveSixty(cid, pid, score, grade, method) ==
    [candidate_id |-> cid, position_id |-> pid, overall_score |-> score,
     grade |-> grade, is_qualified |-> (score > 60),
     evaluation_method |-> method]

MatchRow(cid, pid, score, grade, method) ==
    [candidate_id |-> cid, position_id |-> pid, overall_score |-> score,
     grade |-> grade, is_qualified |-> (score >= 60),
     evaluation_method |-> method]

\* variant: the match row of the first evaluated position is left out
InitialMatchRowsFromSecond(cid, evals, p) ==
    [i \in 1..(Len(evals) - 1) |->
        MatchRow(cid, i + 1, evals[i + 1].overall_score, evals[i + 1].grade,
                 "INITIAL")]

\* variant: two match rows are written for each evaluated position
InitialMatchRowsTwice(cid, evals, p) ==
    [i \in 1..(2 * Len(evals)) |->
        LET q == (i + 1) \div 2
        IN  MatchRow(cid, q, evals[q].overall_score, evals[q].grade, "INITIAL")]

RECURSIVE InitialMatchRows(_, _, _)
InitialMatchRows(cid, evals, p) ==
    IF p \notin DOMAIN evals THEN <<>>
    ELSE <<MatchRow(cid, p, evals[p].overall_score, evals[p].grade, "INITIAL")>>
             \o InitialMatchRows(cid, evals, p + 1)

\* Candidate.name is NOT NULL: a profile whose name is None cannot be flushed
SaveFails(nameFound, dbFails) == ~nameFound \/ dbFails

\* RecruitmentService.process_resume, run by the upload route.  (Through
\* the agent's tools the method is handed text where it expects the bytes
\* of a PDF, and ends as a run whose PDF cannot be parsed.)
ProcessResume(pdfOk, extractOk, nameFound, intentionReply, evalReplies, dbFails) ==
    LET intention == IntentionOrDefault(intentionReply)
        evals == Evaluations(evalReplies)
        decision == AllocationDecision(intention, evals)
        cid == Len(candidates) + 1
        fail(code) ==
            /\ result' = ErrorResult("process_resume", code)
            /\ reasoning' = <<>>
            /\ run' = RunOf(pdfOk, extractOk, nameFound, dbFails,
                           intentionReply, evalReplies)
            /\ UNCHANGED <<positions, candidates, matches, history, versions,
                           audit, pendingAudit>>
    IN  IF positions = <<>> THEN fail("POSITION_DB_EMPTY")
        ELSE IF ~pdfOk THEN fail("PDF_PARSE_FAILED")
        ELSE IF ~extractOk THEN fail("EXTRACTION_FAILED")
        ELSE IF SaveFails(nameFound, dbFails)
        THEN /\ pendingAudit' = RolledBackAudit("web")
             /\ result' = ErrorResult("process_resume", "SAVE_FAILED")
             /\ reasoning' = <<>>
             /\ run' = RunOf(pdfOk, extractOk, nameFound, dbFails,
                           intentionReply, evalReplies)
             /\ UNCHANGED <<positions, candidates, matches, history,
                            versions, audit>>
        ELSE /\ Len(candidates) < MaxCandidates
             /\ candidates' = Append(candidates, CandidateRow(intention, decision))
             /\ versions' = Append(versions, cid)
             /\ matches' = matches \o InitialMatchRows(cid, evals, 1)
             /\ audit' = CommittedAudit("web")
             /\ pendingAudit' =
                    HeldAudit("web", <<AuditRow("RESUME_UPLOADED", cid, NoId)>>)
             /\ result' = [NoResult EXCEPT !.op = "process_resume",
                                           !.status = "success",
                                           !.candidate_id = cid]
             /\ reasoning' = <<>>
             /\ run' = RunOf(pdfOk, extractOk, nameFound, dbFails,
                           intentionReply, evalReplies)
             /\ UNCHANGED <<positions, history>>

\* the faults of a resume run outside the reasoning service: the PDF cannot
\* be parsed, profile extraction raises, the profile has no name, a write
\* to the store fails
Faults == {"none", "pdf", "extract", "noname", "db"}

\* a run that ends in a fault returns the same whatever the reasoning
\* service replied, so one reply is enumerated for it
IntentionRepliesFor(fault) ==
    IF fault = "none" THEN RunIntentionReplies ELSE {Text}
EvalRepliesFor(fault) ==
    IF fault = "none" THEN [PositionIds -> RunEvalReplies]
    ELSE [PositionIds -> {Raise}]

UploadResume ==
    \E fault \in Faults :
    \E intentionReply \in IntentionRepliesFor(fault) :
    \E evalReplies \in EvalRepliesFor(fault) :
        /\ ProcessResume(fault # "pdf", fault # "extract", fault # "noname",
                         intentionReply, evalReplies, fault = "db")
        /\ UNCHANGED <<units, evalCall, extraction, upload>>

----------------------------------------------------------------------------
(* LangGraph resume workflow: five nodes joined by unconditional edges,     *)
(* each taking and returning the workflow state                             *)

\* create_resume_state; a field that is None holds the empty sequence
CreateResumeState ==
    [extraction_error |-> FALSE,
     job_intention |-> <<>>,
     evaluations |-> <<>>,
     evaluation_errors |-> {},
     allocation_decision |-> <<>>,
     candidate_id |-> NoId,
     database_error |-> FALSE,
     status |-> "processing",
     message |-> "START"]

NodeExtractInfo(state, extractOk) ==
    IF extractOk
    THEN [state EXCEPT !.message = "EXTRACTED"]
    ELSE [state EXCEPT !.extraction_error = TRUE, !.status = "error",
                       !.message = "EXTRACTION_FAILED"]

\* variant: a raised classification ends the workflow as a failed
\* extraction does
NodeAnalyzeIntentionAborting(state, intentionReply) ==
    IF state.extraction_error THEN [state EXCEPT !.status = "error"]
    ELSE LET r == AnalyzeJobIntention(intentionReply)
         IN  IF r.kind = "raise"
             THEN [state EXCEPT !.extraction_error = TRUE, !.status = "error",
                                !.message = "INTENTION_FAILED"]
             ELSE [state EXCEPT !.job_intention =
                       <<[has_explicit_position |-> r.has_explicit_position,
                          explicit_position |-> r.explicit_position]>>,
                                !.message = "INTENTION_ANALYZED"]

NodeAnalyzeIntention(state, intentionReply) ==
    IF state.extraction_error THEN [state EXCEPT !.status = "error"]
    ELSE LET r == AnalyzeJobIntention(intentionReply)
         IN  IF r.kind = "raise"
             THEN [state EXCEPT !.job_intention =
                       <<[has_explicit_position |-> FALSE,
                          explicit_position |-> None]>>]
             ELSE [state EXCEPT !.job_intention =
                       <<[has_explicit_position |-> r.has_explicit_position,
                          explicit_position |-> r.explicit_position]>>,
                                !.message = "INTENTION_ANALYZED"]

NodeEvaluatePositions(state, evalReplies) ==
    IF state.extraction_error THEN [state EXCEPT !.status = "error"]
    ELSE IF positions = <<>>
    THEN [state EXCEPT !.evaluation_errors = @ \cup {"NO_ACTIVE_POSITIONS"},
                       !.status = "error",
                       !.message = "NO_ACTIVE_POSITIONS"]
    ELSE [state EXCEPT
             !.evaluations =
                 [p \in PositionIds |->
                     LET r == EvaluateCandidateForPosition(evalReplies[p])
                     IN  IF r.kind = "raise"
                         THEN [overall_score |-> 0, grade |-> "D"]
                         ELSE [overall_score |-> r.overall_score,
                               grade |-> r.grade]],
             !.evaluation_errors =
                 @ \cup {positions[p] : p \in
                            {q \in PositionIds :
                                EvaluateCandidateForPosition(evalReplies[q]).kind
                                    = "raise"}},
             !.message = "EVALUATED"]

\* variant: of the positions that share the highest score the node takes
\* the last
NodeMakeAllocationDecisionLastBest(state) ==
    IF DOMAIN state.evaluations = {}
    THEN [state EXCEPT !.status = "error", !.message = "NO_EVALUATIONS"]
    ELSE LET evals == state.evaluations
             best == FindLastBestPosition(evals)
             best_position_name ==
                 IF best[1] # NoId THEN positions[best[1]] ELSE None
             has_intention ==
                 /\ state.job_intention # <<>>
                 /\ state.job_intention[1].has_explicit_position
             explicit_pos ==
                 IF has_intention
                 THEN PositionByName(state.job_intention[1].explicit_position)
                 ELSE NoId
             decision ==
                 IF has_intention /\ explicit_pos # NoId
                 THEN [auto_matched_position |-> positions[explicit_pos],
                       auto_matched_position_score |->
                           IF explicit_pos \in DOMAIN evals
                           THEN evals[explicit_pos].overall_score ELSE 60,
                       is_position_locked |-> TRUE,
                       no_matched_position |-> FALSE]
                 ELSE [auto_matched_position |-> best_position_name,
                       auto_matched_position_score |-> best[2],
                       is_position_locked |-> FALSE,
                       no_matched_position |-> has_intention]
         IN  [state EXCEPT !.allocation_decision = <<decision>>,
                           !.message = "DECIDED"]

NodeMakeAllocationDecision(state) ==
    IF DOMAIN state.evaluations = {}
    THEN [state EXCEPT !.status = "error", !.message = "NO_EVALUATIONS"]
    ELSE LET evals == state.evaluations
             best == FindBestFrom(evals, 1, NoId, -1)
             best_position_name ==
                 IF best[1] # NoId THEN positions[best[1]] ELSE None
             has_intention ==
                 /\ state.job_intention # <<>>
                 /\ state.job_intention[1].has_explicit_position
             explicit_pos ==
                 IF has_intention
                 THEN PositionByName(state.job_intention[1].explicit_position)
                 ELSE NoId
             decision ==
                 IF has_intention /\ explicit_pos # NoId
                 THEN [auto_matched_position |-> positions[explicit_pos],
                       auto_matched_position_score |->
                           IF explicit_pos \in DOMAIN evals
                           THEN evals[explicit_pos].overall_score ELSE 60,
                       is_position_locked |-> TRUE,
                       no_matched_position |-> FALSE]
                 ELSE [auto_matched_position |-> best_position_name,
                       auto_matched_position_score |-> best[2],
                       is_position_locked |-> FALSE,
                       no_matched_position |-> has_intention]
         IN  [state EXCEPT !.allocation_decision = <<decision>>,
                           !.message = "DECIDED"]

\* process_resume_save raises: it reads the decision, which is None when no
\* decision was made, or a write fails
ResumeSaveFails(state, nameFound, dbFails) ==
    \/ state.allocation_decision = <<>>
    \/ SaveFails(nameFound, dbFails)

\* variant: the node sets candidate_id whatever became of the run
NodeSaveToDatabaseSettingId(state, nameFound, dbFails, cid) ==
    IF state.extraction_error
    THEN [state EXCEPT !.status = "error", !.candidate_id = cid]
    ELSE IF ResumeSaveFails(state, nameFound, dbFails)
    THEN [state EXCEPT !.database_error = TRUE, !.status = "error",
                       !.message = "SAVE_FAILED", !.candidate_id = cid]
    ELSE [state EXCEPT !.candidate_id = cid, !.status = "success",
                       !.message = "SAVED"]

\* node_save_to_database, without the writes of process_resume_save
NodeSaveToDatabase(state, nameFound, dbFails, cid) ==
    IF state.extraction_error THEN [state EXCEPT !.status = "error"]
    ELSE IF ResumeSaveFails(state, nameFound, dbFails)
    THEN [state EXCEPT !.database_error = TRUE, !.status = "error",
                       !.message = "SAVE_FAILED"]
    ELSE [state EXCEPT !.candidate_id = cid, !.status = "success",
                       !.message = "SAVED"]

\* RecruitmentWorkflows.invoke_resume_processing
ResumeWorkflow(extractOk, nameFound, intentionReply, evalReplies, dbFails) ==
    \E s1 \in {NodeExtractInfo(CreateResumeState, extractOk)} :
    \E s2 \in {NodeAnalyzeIntention(s1, intentionReply)} :
    \E s3 \in {NodeEvaluatePositions(s2, evalReplies)} :
    \E s4 \in {NodeMakeAllocationDecision(s3)} :
    \E s5 \in {NodeSaveToDatabase(s4, nameFound, dbFails, Len(candidates) + 1)} :
        /\ result' = [op |-> "resume_workflow", status |-> s5.status,
                      code |-> s5.message, candidate_id |-> s5.candidate_id,
                      position_id |-> NoId, changes |-> <<>>,
                      errors |-> s5.evaluation_errors]
        /\ reasoning' = <<>>
        /\ run' = RunOf(TRUE, extractOk, nameFound, dbFails, intentionReply,
                      evalReplies)
        /\ IF s5.status = "success"
           THEN /\ Len(candidates) < MaxCandidates
                /\ candidates' =
                       Append(candidates,
                              CandidateRow(s4.job_intention[1],
                                           s4.allocation_decision[1]))
                /\ versions' = Append(versions, s5.candidate_id)
                /\ matches' = matches \o
                       InitialMatchRows(s5.candidate_id, s4.evaluations, 1)
                /\ audit' = CommittedAudit("web")
                /\ pendingAudit' =
                       HeldAudit("web", <<AuditRow("RESUME_UPLOADED",
                                                   s5.candidate_id, NoId)>>)
                /\ UNCHANGED <<positions, history>>
           ELSE /\ pendingAudit' =
                       IF s5.database_error THEN RolledBackAudit("web")
                       ELSE pendingAudit
                /\ UNCHANGED <<positions, candidates, matches, history,
                               versions, audit>>

WorkflowFaults == {"none", "extract", "noname", "db"}

RunResumeWorkflow ==
    \E fault \in WorkflowFaults :
    \E intentionReply \in IntentionRepliesFor(fault) :
    \E evalReplies \in EvalRepliesFor(fault) :
        /\ ResumeWorkflow(fault # "extract", fault # "noname", intentionReply,
                          evalReplies, fault = "db")
        /\ UNCHANGED <<units, evalCall, extraction, upload>>

----------------------------------------------------------------------------
(* Reallocation sweep *)

\* number of arguments the sweep passes to match_position_to_intention, and
\* number of parameters (besides self) that method declares
MatchCallArgs == 3
MatchDeclaredParams == 2

\* variant: a call that raises, or whose reply holds no JSON object, counts
\* as a sure match
MatchFailureCountsAsMatch(nargs, reply) ==
    IF reply.kind = "json"
    THEN [kind |-> "ok", match |-> reply.match, confidence |-> reply.confidence]
    ELSE [kind |-> "ok", match |-> TRUE, confidence |-> 10]

\* match_position_to_intention called with nargs arguments: binding the
\* arguments fails with TypeError unless their number is the declared one;
\* otherwise the call raises, or the reply is parsed (default "no match"
\* when it holds no JSON object)
MatchPositionToIntention(nargs, reply) ==
    IF nargs # MatchDeclaredParams THEN Raise
    ELSE IF reply.kind = "raise" THEN Raise
    ELSE IF reply.kind = "json"
         THEN [kind |-> "ok", match |-> reply.match, confidence |-> reply.confidence]
         ELSE [kind |-> "ok", match |-> FALSE, confidence |-> 0]

\* variant: the call is made with the arguments the method declares, and a
\* confidence equal to the threshold is accepted
SweepAcceptsFromThreshold(reply) ==
    /\ reply.kind = "json"
    /\ reply.match
    /\ reply.confidence >= ConfidenceThreshold

\* the call of the sweep and its acceptance test; a raised call is caught
\* by the handler of the loop body and the candidate is skipped
SweepAccepts(reply) ==
    LET match_result == MatchPositionToIntention(MatchCallArgs, reply)
    IN  /\ match_result.kind = "ok"
        /\ match_result.match
        /\ match_result.confidence > ConfidenceThreshold

\* the candidates the sweep scans
IsScanned(c) ==
    /\ c.has_explicit_position
    /\ c.no_matched_position
    /\ ~c.is_position_locked

ScannedIds(cands) == {i \in 1..Len(cands) : IsScanned(cands[i])}

\* variant: the row holds the new values as the old ones and the old as
\* the new
HistoryRowSwapped(cid, old_pos, old_score, new_pos, new_score, trigger) ==
    [candidate_id |-> cid, old_position |-> new_pos, old_score |-> new_score,
     new_position |-> old_pos, new_score |-> old_score,
     trigger_event |-> trigger]

HistoryRow(cid, old_pos, old_score, new_pos, new_score, trigger) ==
    [candidate_id |-> cid, old_position |-> old_pos, old_score |-> old_score,
     new_position |-> new_pos, new_score |-> new_score,
     trigger_event |-> trigger]

ChangeEntry(cid, old_pos, old_score, new_pos, new_score) ==
    [candidate_id |-> cid, old_position |-> old_pos, old_score |-> old_score,
     new_position |-> new_pos, new_score |-> new_score]

\* variant: the candidate is locked and counted before the reasoning
\* service is asked, and stays so when it is not moved
SweepCandidateMarkingFirst(st, cid, pid, name, matchReply, evalReply) ==
    [st EXCEPT !.candidates[cid].is_position_locked = TRUE,
               !.candidates[cid].no_matched_position = FALSE,
               !.candidates[cid].reallocation_count = @ + 1]

\* the body of the sweep's loop for candidate cid; st holds the rows and
\* the list of changes as the loop has them so far
SweepCandidate(st, cid, pid, name, matchReply, evalReply) ==
    LET candidate == st.candidates[cid]
        eval_result == EvaluateCandidateForPosition(evalReply)
        old_pos == candidate.auto_matched_position
        old_score == candidate.auto_matched_position_score
        new_score == eval_result.overall_score
    IN  IF ~SweepAccepts(matchReply) THEN st
        ELSE IF eval_result.kind = "raise" THEN st
        ELSE [candidates |->
                  [st.candidates EXCEPT ![cid] =
                      [candidate EXCEPT
                          !.auto_matched_position = name,
                          !.auto_matched_position_score = new_score,
                          !.is_position_locked = TRUE,
                          !.no_matched_position = FALSE,
                          !.reallocation_count = @ + 1]],
              history |->
                  Append(st.history,
                         HistoryRow(cid, old_pos, old_score, name, new_score,
                                    "NEW_POSITION")),
              matches |->
                  Append(st.matches,
                         MatchRow(cid, pid, new_score, eval_result.grade, "BATCH")),
              changes |->
                  Append(st.changes,
                         ChangeEntry(cid, old_pos, old_score, name, new_score))]

RECURSIVE SweepFrom(_, _, _, _, _, _)
SweepFrom(st, ids, pid, name, matchReplies, evalReplies) ==
    IF ids = {} THEN st
    ELSE LET cid == CHOOSE i \in ids : \A j \in ids : i <= j
         IN  SweepFrom(SweepCandidate(st, cid, pid, name,
                                      matchReplies[cid], evalReplies[cid]),
                       ids \ {cid}, pid, name, matchReplies, evalReplies)

\* variants of the sweep: candidate cid is moved to the new position with
\* the score of a fresh evaluation, whatever the reasoning service answers
VariantMove(st, cid, pid, name) ==
    LET candidate == st.candidates[cid]
        new_score == EvaluateCandidateForPosition(EvalReply(90, "A")).overall_score
    IN  [candidates |->
             [st.candidates EXCEPT ![cid] =
                 [candidate EXCEPT
                     !.auto_matched_position = name,
                     !.auto_matched_position_score = new_score,
                     !.is_position_locked = TRUE,
                     !.no_matched_position = FALSE,
                     !.reallocation_count = @ + 1]],
         history |->
             Append(st.history,
                    HistoryRow(cid, candidate.auto_matched_position,
                               candidate.auto_matched_position_score, name,
                               new_score, "NEW_POSITION")),
         matches |->
             Append(st.matches, MatchRow(cid, pid, new_score, "A", "BATCH")),
         changes |->
             Append(st.changes,
                    ChangeEntry(cid, candidate.auto_matched_position,
                                candidate.auto_matched_position_score, name,
                                new_score))]

RECURSIVE VariantSweepFrom(_, _, _, _)
VariantSweepFrom(st, ids, pid, name) ==
    IF ids = {} THEN st
    ELSE LET cid == CHOOSE i \in ids : \A j \in ids : i <= j
         IN  VariantSweepFrom(VariantMove(st, cid, pid, name), ids \ {cid},
                              pid, name)

\* variant: the sweep that reallocates every candidate that is not locked
ReallocateEveryCandidate(pid, name, matchReplies, evalReplies) ==
    VariantSweepFrom([candidates |-> candidates, history |-> history,
                      matches |-> matches, changes |-> <<>>],
                     {i \in CandidateIds : ~candidates[i].is_position_locked},
                     pid, name)

\* variant: the sweep that scans the candidates with an intention without
\* looking at their lock
ReallocateLockedToo(pid, name, matchReplies, evalReplies) ==
    VariantSweepFrom([candidates |-> candidates, history |-> history,
                      matches |-> matches, changes |-> <<>>],
                     {i \in CandidateIds : candidates[i].has_explicit_position},
                     pid, name)

\* variant: the sweep lists every candidate it scans as changed and
\* changes none
ReallocateListingScanned(pid, name, matchReplies, evalReplies) ==
    [candidates |-> candidates, history |-> history, matches |-> matches,
     changes |->
         [i \in 1..Cardinality(ScannedIds(candidates)) |->
             LET cid == CHOOSE c \in ScannedIds(candidates) :
                            Cardinality({d \in ScannedIds(candidates) : d <= c}) = i
             IN  ChangeEntry(cid, candidates[cid].auto_matched_position,
                             candidates[cid].auto_matched_position_score,
                             name, 60)]]

\* _reallocate_explicit_intention_candidates for the new position pid
ReallocateExplicitIntentionCandidates(pid, name, matchReplies, evalReplies) ==
    SweepFrom([candidates |-> candidates, history |-> history,
               matches |-> matches, changes |-> <<>>],
              ScannedIds(candidates), pid, name, matchReplies, evalReplies)

\* variant: the name of the new position is not checked against the
\* names that exist
CreatePositionUnchecked(via, name, analysisOk, matchReplies, evalReplies) ==
    LET pid == Len(positions) + 1
        swept == ReallocateExplicitIntentionCandidates(pid, name, matchReplies,
                                                      evalReplies)
    IN  IF ~analysisOk
        THEN /\ result' = ErrorResult("create_position", "ANALYSIS_FAILED")
             /\ reasoning' = <<>>
             /\ run' = NoRun
             /\ UNCHANGED <<positions, candidates, matches, history, versions,
                            audit, pendingAudit>>
        ELSE /\ Len(positions) < MaxPositions
             /\ positions' = Append(positions, name)
             /\ candidates' = swept.candidates
             /\ history' = swept.history
             /\ matches' = swept.matches
             /\ audit' = CommittedAudit(via) (+)
                    BagOfRows(<<AuditRow("REALLOCATE_EXPLICIT_INTENTION", NoId, pid)>>)
             /\ pendingAudit' =
                    HeldAudit(via, <<AuditRow("CREATE_POSITION", NoId, pid)>>)
             /\ result' = [NoResult EXCEPT !.op = "create_position",
                                           !.status = "success",
                                           !.position_id = pid,
                                           !.changes = swept.changes]
             /\ reasoning' = matchReplies
             /\ run' = NoRun
             /\ UNCHANGED versions

\* RecruitmentService.create_position
CreatePosition(via, name, analysisOk, matchReplies, evalReplies) ==
    LET pid == Len(positions) + 1
        swept == ReallocateExplicitIntentionCandidates(pid, name, matchReplies,
                                                      evalReplies)
    IN  IF ~analysisOk
        THEN /\ result' = ErrorResult("create_position", "ANALYSIS_FAILED")
             /\ reasoning' = <<>>
             /\ run' = NoRun
             /\ UNCHANGED <<positions, candidates, matches, history, versions,
                            audit, pendingAudit>>
        ELSE IF \E p \in PositionIds : positions[p] = name
        THEN \* the unique constraint on Position.name fails the flush
             /\ result' = ErrorResult("create_position", "CREATE_FAILED")
             /\ pendingAudit' = RolledBackAudit(via)
             /\ reasoning' = <<>>
             /\ run' = NoRun
             /\ UNCHANGED <<positions, candidates, matches, history, versions,
                            audit>>
        ELSE /\ Len(positions) < MaxPositions
             /\ positions' = Append(positions, name)
             /\ candidates' = swept.candidates
             /\ history' = swept.history
             /\ matches' = swept.matches
             /\ audit' = CommittedAudit(via) (+)
                    BagOfRows(<<AuditRow("REALLOCATE_EXPLICIT_INTENTION", NoId, pid)>>)
             /\ pendingAudit' =
                    HeldAudit(via, <<AuditRow("CREATE_POSITION", NoId, pid)>>)
             /\ result' = [NoResult EXCEPT !.op = "create_position",
                                           !.status = "success",
                                           !.position_id = pid,
                                           !.changes = swept.changes]
             /\ reasoning' = matchReplies
             /\ run' = NoRun
             /\ UNCHANGED versions

\* the evaluation is asked only for the candidates the sweep accepts, so
\* one reply is enumerated for the others
SweepEvalReplies(matchReplies) ==
    {f \in [DOMAIN matchReplies -> RunEvalReplies] :
        \A c \in DOMAIN matchReplies :
            ~SweepAccepts(matchReplies[c]) => f[c] = Raise}

\* the route POST /positions
NewPosition ==
    \/ \E name \in Names :
           /\ PositionByName(name) = NoId
           /\ \E matchReplies \in [ScannedIds(candidates) -> RunMatchReplies] :
              \E evalReplies \in SweepEvalReplies(matchReplies) :
                  CreatePosition("web", name, TRUE, matchReplies, evalReplies)
           /\ UNCHANGED <<units, evalCall, extraction, upload>>
    \/ \* the sweep is not reached: the analysis raises, or the name is taken
       \E name \in Names, analysisOk \in BOOLEAN :
           /\ ~analysisOk \/ PositionByName(name) # NoId
           /\ CreatePosition("web", name, analysisOk,
                             [c \in ScannedIds(candidates) |-> Raise],
                             [c \in ScannedIds(candidates) |-> Raise])
           /\ UNCHANGED <<units, evalCall, extraction, upload>>

\* the agent's tool create_position
AgentCreatePosition ==
    \/ \E name \in Names :
           /\ PositionByName(name) = NoId
           /\ \E matchReplies \in [ScannedIds(candidates) -> RunMatchReplies] :
              \E evalReplies \in SweepEvalReplies(matchReplies) :
                  CreatePosition("agent", name, TRUE, matchReplies, evalReplies)
           /\ UNCHANGED <<units, evalCall, extraction, upload>>
    \/ \E name \in Names, analysisOk \in BOOLEAN :
           /\ ~analysisOk \/ PositionByName(name) # NoId
           /\ CreatePosition("agent", name, analysisOk,
                             [c \in ScannedIds(candidates) |-> Raise],
                             [c \in ScannedIds(candidates) |-> Raise])
           /\ UNCHANGED <<units, evalCall, extraction, upload>>

----------------------------------------------------------------------------
(* Manual reassignment *)

\* manual reassignments made so far
ManualCount ==
    Cardinality({h \in 1..Len(history) : history[h].trigger_event = "MANUAL"})

\* variant: the match rows of the candidate, whatever their position
MatchIdsOfCandidate(cid, pid) ==
    {m \in 1..Len(matches) : matches[m].candidate_id = cid}

MatchIdsOf(cid, pid) ==
    {m \in 1..Len(matches) :
        matches[m].candidate_id = cid /\ matches[m].position_id = pid}

\* variant: the reassignment leaves reallocation_count as it was
UpdateCandidatePositionKeepingCount(cid, pid) ==
    LET fail(code) ==
            /\ result' = ErrorResult("update_candidate_position", code)
            /\ reasoning' = <<>>
            /\ run' = NoRun
            /\ UNCHANGED <<positions, candidates, matches, history, versions,
                           audit, pendingAudit>>
    IN  IF cid \notin CandidateIds THEN fail("CANDIDATE_NOT_FOUND")
        ELSE IF pid \notin PositionIds THEN fail("POSITION_NOT_FOUND")
        ELSE IF MatchIdsOf(cid, pid) = {}
        THEN \* the message names the candidate and the position
             /\ result' = [ErrorResult("update_candidate_position",
                                       "NO_MATCH_ROW")
                               EXCEPT !.candidate_id = cid,
                                      !.position_id = pid]
             /\ reasoning' = <<>>
             /\ run' = NoRun
             /\ UNCHANGED <<positions, candidates, matches, history, versions,
                            audit, pendingAudit>>
        ELSE LET new_match ==
                     matches[CHOOSE m \in MatchIdsOf(cid, pid) :
                                 \A k \in MatchIdsOf(cid, pid) : m <= k]
                 candidate == candidates[cid]
             IN  /\ ManualCount < MaxManual
                 /\ candidates' =
                        [candidates EXCEPT ![cid] =
                            [candidate EXCEPT
                                !.auto_matched_position = positions[pid],
                                !.auto_matched_position_score = new_match.overall_score]]
                 /\ history' =
                        Append(history,
                               HistoryRow(cid, candidate.auto_matched_position,
                                          candidate.auto_matched_position_score,
                                          positions[pid], new_match.overall_score,
                                          "MANUAL"))
                 /\ audit' = CommittedAudit("agent") (+)
                        BagOfRows(<<AuditRow("UPDATE_CANDIDATE_POSITION", cid, pid)>>)
                 /\ pendingAudit' = <<>>
                 /\ result' = [NoResult EXCEPT !.op = "update_candidate_position",
                                               !.status = "success",
                                               !.candidate_id = cid,
                                               !.position_id = pid]
                 /\ reasoning' = <<>>
                 /\ run' = NoRun
                 /\ UNCHANGED <<positions, matches, versions>>

\* variant: the reassignment takes the lock off the candidate and marks it
\* as waiting when it has an intention
UpdateCandidatePositionReleasing(cid, pid) ==
    LET fail(code) ==
            /\ result' = ErrorResult("update_candidate_position", code)
            /\ reasoning' = <<>>
            /\ run' = NoRun
            /\ UNCHANGED <<positions, candidates, matches, history, versions,
                           audit, pendingAudit>>
    IN  IF cid \notin CandidateIds THEN fail("CANDIDATE_NOT_FOUND")
        ELSE IF pid \notin PositionIds THEN fail("POSITION_NOT_FOUND")
        ELSE IF MatchIdsOf(cid, pid) = {}
        THEN \* the message names the candidate and the position
             /\ result' = [ErrorResult("update_candidate_position",
                                       "NO_MATCH_ROW")
                               EXCEPT !.candidate_id = cid,
                                      !.position_id = pid]
             /\ reasoning' = <<>>
             /\ run' = NoRun
             /\ UNCHANGED <<positions, candidates, matches, history, versions,
                            audit, pendingAudit>>
        ELSE LET new_match ==
                     matches[CHOOSE m \in MatchIdsOf(cid, pid) :
                                 \A k \in MatchIdsOf(cid, pid) : m <= k]
                 candidate == candidates[cid]
             IN  /\ ManualCount < MaxManual
                 /\ candidates' =
                        [candidates EXCEPT ![cid] =
                            [candidate EXCEPT
                                !.auto_matched_position = positions[pid],
                                !.auto_matched_position_score = new_match.overall_score,
                                !.is_position_locked = FALSE,
                                !.no_matched_position = candidate.has_explicit_position,
                                !.reallocation_count = @ + 1]]
                 /\ history' =
                        Append(history,
                               HistoryRow(cid, candidate.auto_matched_position,
                                          candidate.auto_matched_position_score,
                                          positions[pid], new_match.overall_score,
                                          "MANUAL"))
                 /\ audit' = CommittedAudit("agent") (+)
                        BagOfRows(<<AuditRow("UPDATE_CANDIDATE_POSITION", cid, pid)>>)
                 /\ pendingAudit' = <<>>
                 /\ result' = [NoResult EXCEPT !.op = "update_candidate_position",
                                               !.status = "success",
                                               !.candidate_id = cid,
                                               !.position_id = pid]
                 /\ reasoning' = <<>>
                 /\ run' = NoRun
                 /\ UNCHANGED <<positions, matches, versions>>

\* the tool update_candidate_position
UpdateCandidatePosition(cid, pid) ==
    LET fail(code) ==
            /\ result' = ErrorResult("update_candidate_position", code)
            /\ reasoning' = <<>>
            /\ run' = NoRun
            /\ UNCHANGED <<positions, candidates, matches, history, versions,
                           audit, pendingAudit>>
    IN  IF cid \notin CandidateIds THEN fail("CANDIDATE_NOT_FOUND")
        ELSE IF pid \notin PositionIds THEN fail("POSITION_NOT_FOUND")
        ELSE IF MatchIdsOf(cid, pid) = {}
        THEN \* the message names the candidate and the position
             /\ result' = [ErrorResult("update_candidate_position",
                                       "NO_MATCH_ROW")
                               EXCEPT !.candidate_id = cid,
                                      !.position_id = pid]
             /\ reasoning' = <<>>
             /\ run' = NoRun
             /\ UNCHANGED <<positions, candidates, matches, history, versions,
                            audit, pendingAudit>>
        ELSE LET new_match ==
                     matches[CHOOSE m \in MatchIdsOf(cid, pid) :
                                 \A k \in MatchIdsOf(cid, pid) : m <= k]
                 candidate == candidates[cid]
             IN  /\ ManualCount < MaxManual
                 /\ candidates' =
                        [candidates EXCEPT ![cid] =
                            [candidate EXCEPT
                                !.auto_matched_position = positions[pid],
                                !.auto_matched_position_score = new_match.overall_score,
                                !.reallocation_count = @ + 1]]
                 /\ history' =
                        Append(history,
                               HistoryRow(cid, candidate.auto_matched_position,
                                          candidate.auto_matched_position_score,
                                          positions[pid], new_match.overall_score,
                                          "MANUAL"))
                 /\ audit' = CommittedAudit("agent") (+)
                        BagOfRows(<<AuditRow("UPDATE_CANDIDATE_POSITION", cid, pid)>>)
                 /\ pendingAudit' = <<>>
                 /\ result' = [NoResult EXCEPT !.op = "update_candidate_position",
                                               !.status = "success",
                                               !.candidate_id = cid,
                                               !.position_id = pid]
                 /\ reasoning' = <<>>
                 /\ run' = NoRun
                 /\ UNCHANGED <<positions, matches, versions>>

ManualReassign ==
    \E cid \in 1..MaxCandidates, pid \in 1..MaxPositions :
        /\ UpdateCandidatePosition(cid, pid)
        /\ UNCHANGED <<units, evalCall, extraction, upload>>

\* the keyword arguments the tool evaluate_candidate passes to
\* evaluate_candidate_for_position, and the parameters that method declares
ReevaluateCallKeywords ==
    {"candidate_info", "position_name", "position_description",
     "evaluation_prompt"}
EvaluateDeclaredParams ==
    {"candidate_info", "position_name", "position_description",
     "required_skills"}

\* the tool evaluate_candidate: binding the keywords fails with TypeError
\* unless they are the declared parameters; a raised call is caught and
\* reported; otherwise the first match row of the pair is updated in place
EvaluateCandidate(cid, pid, evalReply) ==
    LET evaluation ==
            IF ReevaluateCallKeywords # EvaluateDeclaredParams THEN Raise
            ELSE EvaluateCandidateForPosition(evalReply)
        fail(code) ==
            /\ result' = ErrorResult("evaluate_candidate", code)
            /\ reasoning' = <<>>
            /\ run' = NoRun
            /\ UNCHANGED <<positions, candidates, matches, history, versions,
                           audit, pendingAudit>>
    IN  IF cid \notin CandidateIds THEN fail("CANDIDATE_NOT_FOUND")
        ELSE IF pid \notin PositionIds THEN fail("POSITION_NOT_FOUND")
        ELSE IF evaluation.kind = "raise" THEN fail("EVALUATION_FAILED")
        ELSE IF MatchIdsOf(cid, pid) = {} THEN fail("NO_MATCH_ROW")
        ELSE LET m == CHOOSE i \in MatchIdsOf(cid, pid) :
                          \A k \in MatchIdsOf(cid, pid) : i <= k
             IN  /\ matches' =
                        [matches EXCEPT ![m] =
                            [@ EXCEPT
                                !.overall_score = evaluation.overall_score,
                                !.grade = evaluation.grade,
                                !.is_qualified = (evaluation.overall_score >= 60)]]
                 /\ audit' = CommittedAudit("agent")
                 /\ pendingAudit' = <<>>
                 /\ result' = [NoResult EXCEPT !.op = "evaluate_candidate",
                                               !.status = "success",
                                               !.candidate_id = cid,
                                               !.position_id = pid]
                 /\ reasoning' = <<>>
                 /\ run' = NoRun
                 /\ UNCHANGED <<positions, candidates, history, versions>>

\* the reasoning service is asked only by a call that binds, so one reply
\* is enumerated for a call that does not
ReevaluateReplies ==
    IF ReevaluateCallKeywords = EvaluateDeclaredParams THEN RunEvalReplies
    ELSE {Raise}

Reevaluate ==
    \E cid \in 1..MaxCandidates, pid \in 1..MaxPositions :
    \E evalReply \in ReevaluateReplies :
        /\ EvaluateCandidate(cid, pid, evalReply)
        /\ UNCHANGED <<units, evalCall, extraction, upload>>

\* RecruitmentAgent.close: what the agent's session holds uncommitted is
\* discarded
CloseSession ==
    /\ pendingAudit # <<>>
    /\ pendingAudit' = <<>>
    /\ UNCHANGED <<positions, candidates, matches, history, versions, audit,
                   result, run, reasoning, units, evalCall,
                   extraction, upload>>

----------------------------------------------------------------------------
(* Concurrent creations: each request of the web application works in a     *)
(* session of its own (get_db), reads what is committed and commits what    *)
(* it has changed; rows are neither locked nor versioned                    *)

Units == {1, 2}

IdleUnit ==
    [pc |-> "idle", name |-> None, cands |-> <<>>, hist |-> <<>>,
     seen |-> 0, replies |-> <<>>]

InFlight == {u \in Units : units[u].pc \in {"flushed", "scanned"}}

\* create_position up to the flush of the new Position row
BeginCreate(u, name) ==
    /\ units[u].pc \in {"idle", "done", "failed"}
    /\ \A p \in PositionIds : positions[p] # name
    /\ Len(positions) + Cardinality(InFlight) < MaxConcPositions
    /\ units' = [units EXCEPT ![u] = [IdleUnit EXCEPT !.pc = "flushed",
                                                       !.name = name]]
    /\ UNCHANGED <<positions, candidates, matches, history, versions, audit,
                   pendingAudit, result, run, reasoning, evalCall,
                   extraction, upload>>

\* the query of the sweep: the session loads the candidate rows as they
\* are committed
ScanCandidates(u) ==
    /\ units[u].pc = "flushed"
    /\ units' = [units EXCEPT ![u].pc = "scanned",
                              ![u].cands = candidates,
                              ![u].hist = history,
                              ![u].seen = Len(positions)]
    /\ UNCHANGED <<positions, candidates, matches, history, versions, audit,
                   pendingAudit, result, run, reasoning, evalCall,
                   extraction, upload>>

\* the loop of the sweep over the rows the session has loaded, and the
\* commit of create_position: the rows the session changed are written
\* over the committed ones, the rows it added are inserted
CommitCreate(u, matchReplies, evalReplies) ==
    LET unit == units[u]
        pid == Len(positions) + 1
        swept == SweepFrom([candidates |-> unit.cands, history |-> <<>>,
                            matches |-> <<>>, changes |-> <<>>],
                           ScannedIds(unit.cands), pid, unit.name,
                           matchReplies, evalReplies)
        changed == {swept.changes[i].candidate_id : i \in DOMAIN swept.changes}
    IN  /\ unit.pc = "scanned"
        /\ UNCHANGED <<evalCall, extraction, upload>>
        /\ reasoning' = matchReplies
        /\ run' = NoRun
        /\ IF \E p \in PositionIds : positions[p] = unit.name
           THEN \* the unique constraint on Position.name
                /\ result' = ErrorResult("create_position", "CREATE_FAILED")
                /\ units' = [units EXCEPT ![u].pc = "failed",
                                          ![u].replies = matchReplies]
                /\ UNCHANGED <<positions, candidates, matches, history,
                               versions, audit, pendingAudit>>
           ELSE /\ positions' = Append(positions, unit.name)
                /\ candidates' =
                       [c \in DOMAIN candidates |->
                           IF c \in changed THEN swept.candidates[c]
                           ELSE candidates[c]]
                /\ history' = history \o swept.history
                /\ matches' = matches \o swept.matches
                /\ audit' = audit (+)
                       BagOfRows(<<AuditRow("REALLOCATE_EXPLICIT_INTENTION",
                                            NoId, pid)>>)
                /\ result' = [NoResult EXCEPT !.op = "create_position",
                                              !.status = "success",
                                              !.position_id = pid,
                                              !.changes = swept.changes]
                /\ units' = [units EXCEPT ![u].pc = "done",
                                          ![u].replies = matchReplies]
                /\ UNCHANGED <<versions, pendingAudit>>

StartCreation == \E u \in Units, name \in IntentionNames : BeginCreate(u, name)

QueryPending == \E u \in Units : ScanCandidates(u)

FinishCreation ==
    \E u \in Units :
    \E matchReplies \in [ScannedIds(units[u].cands) -> RunMatchReplies] :
    \E evalReplies \in SweepEvalReplies(matchReplies) :
        CommitCreate(u, matchReplies, evalReplies)

Init ==
    /\ positions = <<>>
    /\ candidates = <<>>
    /\ matches = <<>>
    /\ history = <<>>
    /\ versions = <<>>
    /\ audit = EmptyBag
    /\ pendingAudit = <<>>
    /\ result = NoResult
    /\ run = NoRun
    /\ reasoning = <<>>
    /\ units = [u \in Units |-> IdleUnit]
    /\ evalCall = NoEvaluation
    /\ extraction = NoExtraction
    /\ upload = IdleUpload

\* the web application and the agent's reassignment tool
Next ==
    \/ UploadResume
    \/ RunResumeWorkflow
    \/ NewPosition
    \/ ManualReassign
    \/ Reevaluate

Spec == Init /\ [][Next]_vars

\* the same with the positions the agent creates in its own session
NextAgent ==
    \/ Next
    \/ AgentCreatePosition
    \/ CloseSession

SpecAgent == Init /\ [][NextAgent]_vars

\* resume uploads and position creations of concurrent web requests
NextConc ==
    \/ UploadResume
    \/ StartCreation
    \/ QueryPending
    \/ FinishCreation

SpecConc == Init /\ [][NextConc]_vars

----------------------------------------------------------------------------
(* An upload that runs next to the creations of other requests: between    *)
(* step 1 of process_resume, which loads the active positions, and step 6, *)
(* which looks the named position up, the calls of the reasoning service   *)
(* are made, and a position another session commits meanwhile is found by  *)
(* the lookup                                                              *)

\* step 1 of process_resume: the active positions are loaded; with none
\* the run ends here
LoadPositions ==
    /\ upload.pc = "idle"
    /\ IF positions = <<>>
       THEN /\ ProcessResume(TRUE, TRUE, TRUE, Text, <<>>, FALSE)
            /\ UNCHANGED upload
       ELSE /\ upload' = [pc |-> "loaded", seen |-> Len(positions)]
            /\ UNCHANGED <<positions, candidates, matches, history, versions,
                           audit, pendingAudit, result, run, reasoning>>
    /\ UNCHANGED <<units, evalCall, extraction>>

\* the evaluations of step 5 are made for the positions step 1 loaded
LoadedEvalRepliesFor(fault) ==
    IF fault = "none" THEN [1..upload.seen -> RunEvalReplies]
    ELSE [1..upload.seen -> {Raise}]

\* steps 2 to 7 of process_resume
FinishUpload ==
    /\ upload.pc = "loaded"
    /\ \E fault \in Faults :
       \E intentionReply \in IntentionRepliesFor(fault) :
       \E evalReplies \in LoadedEvalRepliesFor(fault) :
           ProcessResume(fault # "pdf", fault # "extract", fault # "noname",
                         intentionReply, evalReplies, fault = "db")
    /\ upload' = IdleUpload
    /\ UNCHANGED <<units, evalCall, extraction>>

\* an upload and the creations of positions by other requests
NextRace ==
    \/ LoadPositions
    \/ FinishUpload
    \/ NewPosition

SpecRace == Init /\ [][NextRace]_vars

----------------------------------------------------------------------------
(* The evaluation call on its own: a reply is drawn, the call is made, step  *)
(* 5 of process_resume keeps its result for the position and step 7 makes   *)
(* a match row of it                                                        *)

InitEvaluate ==
    /\ positions = <<>>
    /\ candidates = <<>>
    /\ matches = <<>>
    /\ history = <<>>
    /\ versions = <<>>
    /\ audit = EmptyBag
    /\ pendingAudit = <<>>
    /\ result = NoResult
    /\ run = NoRun
    /\ reasoning = <<>>
    /\ units = [u \in Units |-> IdleUnit]
    /\ evalCall \in {[NoEvaluation EXCEPT !.reply = r] : r \in EvaluateReplies}
    /\ extraction = NoExtraction
    /\ upload = IdleUpload

CallEvaluate ==
    /\ evalCall.reply # NoCall
    /\ evalCall.returned = NoCall
    /\ evalCall' =
           [evalCall EXCEPT
               !.returned = EvaluateCandidateForPosition(evalCall.reply),
               !.kept = Evaluations(<<evalCall.reply>>)[1],
               !.row = InitialMatchRows(1, Evaluations(<<evalCall.reply>>), 1)[1]]
    /\ UNCHANGED <<positions, candidates, matches, history, versions, audit,
                   pendingAudit, result, run, reasoning, units, extraction, upload>>

NextEvaluate == CallEvaluate

SpecEvaluate == InitEvaluate /\ [][NextEvaluate]_vars

----------------------------------------------------------------------------
(* The profile extraction on its own: what the name patterns find in a text  *)
(* is drawn, and the extraction is applied to it                            *)

ExtractionInputs ==
    {[patterns |-> ps, basic_info |-> b] :
        ps \in [1..NamePatternCount -> FoundNames \cup {None}],
        b \in FoundNames \cup {None}}

InitExtract ==
    /\ positions = <<>>
    /\ candidates = <<>>
    /\ matches = <<>>
    /\ history = <<>>
    /\ versions = <<>>
    /\ audit = EmptyBag
    /\ pendingAudit = <<>>
    /\ result = NoResult
    /\ run = NoRun
    /\ reasoning = <<>>
    /\ units = [u \in Units |-> IdleUnit]
    /\ evalCall = NoEvaluation
    /\ extraction \in {[NoExtraction EXCEPT !.found = f] : f \in ExtractionInputs}
    /\ upload = IdleUpload

CallExtract ==
    /\ extraction.found # NoCall
    /\ extraction.profile = NoCall
    /\ extraction' =
           [extraction EXCEPT !.profile = ExtractCandidateInfo(extraction.found)]
    /\ UNCHANGED <<positions, candidates, matches, history, versions, audit,
                   pendingAudit, result, run, reasoning, units, evalCall,
                   upload>>

NextExtract == CallExtract

SpecExtract == InitExtract /\ [][NextExtract]_vars

----------------------------------------------------------------------------
(* Properties *)

ResumeOps == {"process_resume", "resume_workflow"}

\* the last operation was a resume run that persisted its candidate
ResumeDone == result.op \in ResumeOps /\ result.status = "success"

\* the step creates a position (and so runs the reallocation sweep)
CreateStep == Len(positions') = Len(positions) + 1

\* the step is a manual reassignment of candidate c
ManualStep(c) ==
    /\ result'.op = "update_candidate_position"
    /\ result'.status = "success"
    /\ result'.candidate_id = c
    /\ Len(history') = Len(history) + 1

RowsOf(table, c) == SelectSeq(table, LAMBDA r : r.candidate_id = c)

\* the step leaves the row of candidate c, its match rows and its history
\* rows as they were
Untouched(c) ==
    /\ candidates'[c] = candidates[c]
    /\ RowsOf(matches', c) = RowsOf(matches, c)
    /\ RowsOf(history', c) = RowsOf(history, c)

NewPositionRowCount(table, c) ==
    Len(SelectSeq(table, LAMBDA r : r.candidate_id = c
                                     /\ r.trigger_event = "NEW_POSITION"))

\* the match rows of the candidate of the last resume run
RunMatchIds ==
    {m \in 1..Len(matches) : matches[m].candidate_id = result.candidate_id}

\* the candidate of the last resume run is assigned to a position that
\* scored highest among the positions evaluated in the run, with its score
AssignedToHighest ==
    LET c == candidates[result.candidate_id]
    IN  \E m \in RunMatchIds :
            /\ positions[matches[m].position_id] = c.auto_matched_position
            /\ matches[m].overall_score = c.auto_matched_position_score
            /\ \A k \in RunMatchIds :
                   matches[k].overall_score <= matches[m].overall_score

\* C1: in every reachable state no candidate is both locked and pending,
\* and every pending candidate has an explicit intention.
C1_FlagsExclusive ==
    \A c \in CandidateIds :
        /\ ~(candidates[c].is_position_locked /\ candidates[c].no_matched_position)
        /\ candidates[c].no_matched_position => candidates[c].has_explicit_position

\* a pending candidate that a sweep has scanned and left pending
C1_Witness ==
    /\ result.op = "create_position"
    /\ result.status = "success"
    /\ \E c \in CandidateIds :
           /\ c \in DOMAIN reasoning
           /\ candidates[c].no_matched_position
           /\ candidates[c].has_explicit_position
           /\ ~candidates[c].is_position_locked

\* C2: when a position is created and the reasoning service reports a match
\* with confidence 0.9 for a candidate that is pending and not locked, the
\* candidate is locked and no longer pending once the creation has
\* completed, and exactly one NEW_POSITION history row was appended for it.
C2_MatchedCandidateLocked ==
    [][CreateStep =>
          \A c \in ScannedIds(candidates) :
              reasoning'[c] = MatchReply(TRUE, 9) =>
                  /\ candidates'[c].is_position_locked
                  /\ ~candidates'[c].no_matched_position
                  /\ NewPositionRowCount(history', c)
                         = NewPositionRowCount(history, c) + 1]_vars

\* C3: when the reasoning service answers "no match", or a match with a
\* confidence of at most 0.8, for a pending candidate, the creation of the
\* position leaves the candidate, its match rows and its history rows
\* unchanged.
C3_LowConfidenceUnchanged ==
    [][CreateStep =>
          \A c \in ScannedIds(candidates) :
              (/\ reasoning'[c].kind = "json"
               /\ (~reasoning'[c].match \/ reasoning'[c].confidence <= 8))
                  => Untouched(c) /\ candidates'[c].no_matched_position]_vars

\* a pending candidate after a sweep for which the service answered a
\* match with confidence exactly 0.8
C3_Witness ==
    /\ result.op = "create_position"
    /\ result.status = "success"
    /\ \E c \in DOMAIN reasoning :
           /\ reasoning[c] = MatchReply(TRUE, 8)
           /\ candidates[c].no_matched_position
           /\ ~candidates[c].is_position_locked

C5_LockedOnlyManual ==
    [][\A c \in CandidateIds :
          candidates[c].is_position_locked =>
              /\ CreateStep => Untouched(c)
              /\ (\/ candidates'[c].auto_matched_position
                        # candidates[c].auto_matched_position
                  \/ candidates'[c].auto_matched_position_score
                        # candidates[c].auto_matched_position_score)
                     => ManualStep(c)]_vars

\* a locked candidate, and a position created after its upload
C5_Witness ==
    /\ result.op = "create_position"
    /\ result.status = "success"
    /\ \E c \in CandidateIds :
           /\ candidates[c].is_position_locked
           /\ MatchIdsOf(c, result.position_id) = {}

\* the reasoning service answers a match with a confidence above 0.8
WouldAccept(reply) ==
    reply.kind = "json" /\ reply.match /\ reply.confidence > 8

\* both units have completed their creation, they ran concurrently (neither
\* had committed when the other queried), candidate c was pending for both
\* and the reasoning service answered both with an accepted match
BothWouldAccept(c) ==
    /\ \A u \in Units :
           /\ units[u].pc = "done"
           /\ c \in ScannedIds(units[u].cands)
           /\ WouldAccept(units[u].replies[c])
    /\ units[1].seen = units[2].seen

\* C6: when two position creations run their sweeps concurrently and each
\* would accept the same pending candidate, the candidate is processed by
\* exactly one of them: its reallocation_count has grown by 1, one
\* NEW_POSITION history row was added for it, and it is locked on the
\* position of one of the two creations.
C6_ProcessedOnce ==
    \A c \in CandidateIds :
        BothWouldAccept(c) =>
            /\ candidates[c].reallocation_count
                   = units[1].cands[c].reallocation_count + 1
            /\ NewPositionRowCount(history, c)
                   = NewPositionRowCount(units[1].hist, c) + 1
            /\ candidates[c].is_position_locked
            /\ \E u \in Units :
                   candidates[c].auto_matched_position = units[u].name

\* C7: a resume whose explicit intention names an existing position is
\* persisted locked, not pending, assigned to that position with the score
\* the position got in this run.
C7_LockedOnNamedPosition ==
    ResumeDone =>
        LET c == candidates[result.candidate_id]
        IN  \A p \in PositionIds :
                (c.has_explicit_position /\ positions[p] = c.explicit_position)
                    => /\ c.is_position_locked
                       /\ ~c.no_matched_position
                       /\ c.auto_matched_position = positions[p]
                       /\ \E m \in RunMatchIds :
                              /\ matches[m].position_id = p
                              /\ matches[m].overall_score
                                     = c.auto_matched_position_score

\* a candidate locked at upload onto its named position while another
\* position scored strictly higher
C7_Witness ==
    /\ ResumeDone
    /\ LET c == candidates[result.candidate_id]
       IN  /\ c.is_position_locked
           /\ c.has_explicit_position
           /\ c.auto_matched_position = c.explicit_position
           /\ \E m \in RunMatchIds :
                  matches[m].overall_score > c.auto_matched_position_score

\* C8: a resume whose explicit intention names no existing position is
\* persisted pending, not locked, assigned to the highest-scored position
\* evaluated in the run, with that position's score.
C8_PendingOnBest ==
    ResumeDone =>
        LET c == candidates[result.candidate_id]
        IN  (/\ c.has_explicit_position
             /\ \A p \in PositionIds : positions[p] # c.explicit_position)
                => /\ c.no_matched_position
                   /\ ~c.is_position_locked
                   /\ AssignedToHighest

\* a pending candidate whose run evaluated two positions with different
\* scores
C8_Witness ==
    /\ ResumeDone
    /\ candidates[result.candidate_id].no_matched_position
    /\ \E m, k \in RunMatchIds :
           matches[m].overall_score < matches[k].overall_score

\* C9: a resume without explicit intention is persisted assigned to the
\* highest-scored evaluated position with its score, neither locked nor
\* pending.
C9_NoIntentionOnBest ==
    ResumeDone =>
        LET c == candidates[result.candidate_id]
        IN  ~c.has_explicit_position
                => /\ ~c.is_position_locked
                   /\ ~c.no_matched_position
                   /\ AssignedToHighest

\* a candidate without intention whose run evaluated two positions with
\* different scores
C9_Witness ==
    /\ ResumeDone
    /\ ~candidates[result.candidate_id].has_explicit_position
    /\ \E m, k \in RunMatchIds :
           matches[m].overall_score < matches[k].overall_score

ReasoningOnlyRun ==
    /\ result.op \in ResumeOps
    /\ run.pdfOk /\ run.extractOk /\ run.nameFound /\ ~run.dbFails
    /\ DOMAIN run.evals # {}

\* the match rows the candidate of the last resume run has for position p
RunMatchIdsFor(p) == {m \in RunMatchIds : matches[m].position_id = p}

\* C11: after a resume run in which the evaluation call raised for any
\* subset of the active positions, the run has succeeded and persisted its
\* candidate, each position whose call raised has a match row of the
\* candidate with score 0 and grade D, and each other position has a match
\* row with the score of its evaluation; this also when every call raised.
C11_RaisedEvaluationsDegraded ==
    ReasoningOnlyRun =>
        /\ result.status = "success"
        /\ result.candidate_id \in CandidateIds
        /\ \A p \in DOMAIN run.evals :
               /\ RunMatchIdsFor(p) # {}
               /\ \A m \in RunMatchIdsFor(p) :
                      IF run.evals[p].kind = "raise"
                      THEN /\ matches[m].overall_score = 0
                           /\ matches[m].grade = "D"
                      ELSE matches[m].overall_score
                               = EvaluateCandidateForPosition(run.evals[p]).overall_score

\* a persisted run over two positions in which every evaluation raised
C11_Witness ==
    /\ ResumeDone
    /\ Len(run.evals) = 2
    /\ \A p \in DOMAIN run.evals : run.evals[p].kind = "raise"
    /\ \A m \in RunMatchIds : matches[m].overall_score = 0

\* the rows the step adds to a table
AddedIds(table, table2) == DOMAIN table2 \ DOMAIN table

\* C12: no committed state holds a candidate that lacks a match row for a
\* position evaluated in its run: a step that makes a Candidate row visible
\* makes visible with it one first match row for each position that was
\* active, first match rows become visible only with their Candidate row,
\* and every stored candidate has at least one match row.
C12_CandidateWithMatchRows ==
    [][/\ \A c \in AddedIds(candidates, candidates') :
              \A p \in PositionIds :
                  Cardinality({m \in AddedIds(matches, matches') :
                                  /\ matches'[m].candidate_id = c
                                  /\ matches'[m].position_id = p
                                  /\ matches'[m].evaluation_method = "INITIAL"}) = 1
       /\ \A m \in AddedIds(matches, matches') :
              matches'[m].evaluation_method = "INITIAL"
                  => matches'[m].candidate_id \in AddedIds(candidates, candidates')
       /\ \A c \in DOMAIN candidates' : RowsOf(matches', c) # <<>>]_vars

\* a persisted candidate with a first match row for each of two positions
C12_Witness ==
    /\ ResumeDone
    /\ Len(positions) = 2
    /\ \A p \in PositionIds :
           \E m \in RunMatchIdsFor(p) : matches[m].evaluation_method = "INITIAL"

\* C13: a resume run writes the Candidate row, its match rows and one
\* AuditLog row as one unit: a step that commits a Candidate row commits
\* with it its match rows and exactly one audit row of the upload, a step
\* that commits no Candidate row commits no audit row of an upload, and a
\* run whose write fails commits nothing and ends in a database error.
C13_PersistedWithAuditRow ==
    [][/\ \A c \in AddedIds(candidates, candidates') :
              /\ \E m \in AddedIds(matches, matches') :
                     matches'[m].candidate_id = c
              /\ CopiesIn(AuditRow("RESUME_UPLOADED", c, NoId), audit')
                     = CopiesIn(AuditRow("RESUME_UPLOADED", c, NoId), audit) + 1
       /\ AddedIds(candidates, candidates') = {}
              => \A r \in BagToSet(audit') :
                     r.action = "RESUME_UPLOADED"
                         => CopiesIn(r, audit') = CopiesIn(r, audit)
       /\ (result'.op \in ResumeOps /\ run'.dbFails)
              => /\ result'.status = "error"
                 /\ UNCHANGED <<candidates, matches, versions, audit>>]_vars

\* the match rows of table for the pair of candidate c and position p
PairIds(table, c, p) ==
    {m \in DOMAIN table :
        table[m].candidate_id = c /\ table[m].position_id = p}

\* C14: there is at most one match row for a pair of candidate and
\* position: a resume run inserts one row for each position it evaluated,
\* the sweep inserts a row only for a position the candidate had no row
\* for, and a re-evaluation inserts no row.
C14_OneMatchRowPerPair ==
    [][/\ \A m, k \in DOMAIN matches' :
              (/\ matches'[m].candidate_id = matches'[k].candidate_id
               /\ matches'[m].position_id = matches'[k].position_id) => m = k
       /\ result'.op \in ResumeOps =>
              \A m \in AddedIds(matches, matches') :
                  /\ matches'[m].candidate_id \in AddedIds(candidates, candidates')
                  /\ matches'[m].position_id \in PositionIds
       /\ CreateStep =>
              \A m \in AddedIds(matches, matches') :
                  PairIds(matches, matches'[m].candidate_id,
                          matches'[m].position_id) = {}
       /\ result'.op = "evaluate_candidate" => Len(matches') = Len(matches)]_vars

\* a re-evaluation asked for a candidate that has one match row for each
\* of two positions
C14_Witness ==
    /\ result.op = "evaluate_candidate"
    /\ result.code = "EVALUATION_FAILED"
    /\ \E c \in CandidateIds :
           /\ Cardinality(PairIds(matches, c, 1)) = 1
           /\ Cardinality(PairIds(matches, c, 2)) = 1

\* the evaluation call has been made and has returned a result
Evaluated == evalCall.returned # NoCall /\ evalCall.returned.kind = "ok"

\* the call returns the same grade whatever grade the reply proposes
GradeFromScoreAlone ==
    evalCall.reply.kind = "json" =>
        \A g \in Grades :
            EvaluateCandidateForPosition(
                EvalReply(evalCall.reply.overall_score, g)).grade
              = evalCall.returned.grade

\* the evaluation returned score s with grade g, or another score
Maps(s, g) ==
    evalCall.returned.overall_score = s => evalCall.returned.grade = g

ThresholdGrade(s) ==
    CASE s >= 86 -> "A"
      [] s >= 76 /\ s < 86 -> "B"
      [] s >= 60 /\ s < 76 -> "C"
      [] OTHER -> "D"

C17_UnparsableAsRaised ==
    (evalCall.returned # NoCall /\ evalCall.reply.kind = "text") =>
        /\ evalCall.kept.overall_score = 0
        /\ evalCall.kept.grade = "D"
        /\ evalCall.kept = Evaluations(<<Raise>>)[1]

\* C18: a resume run whose intention call raised, or got a reply that
\* holds no JSON object, goes on without explicit intention: it evaluates
\* every active position and persists the candidate on the position that
\* scored highest, neither locked nor pending.
C18_IntentionFailureIsNoIntention ==
    (ReasoningOnlyRun /\ run.intention.kind \in {"raise", "text"}) =>
        /\ result.status = "success"
        /\ result.candidate_id \in CandidateIds
        /\ \A p \in PositionIds : RunMatchIdsFor(p) # {}
        /\ LET c == candidates[result.candidate_id]
           IN  /\ ~c.has_explicit_position
               /\ ~c.is_position_locked
               /\ ~c.no_matched_position
               /\ AssignedToHighest

\* a persisted run whose intention call raised and whose second position
\* scored higher than the first
C18_Witness ==
    /\ ResumeDone
    /\ run.intention.kind = "raise"
    /\ Len(positions) = 2
    /\ candidates[result.candidate_id].auto_matched_position = positions[2]
    /\ candidates[result.candidate_id].auto_matched_position_score = 90
    /\ \E m \in RunMatchIdsFor(1) : matches[m].overall_score = 0

\* C19: a resume run ends in an error only for a fatal cause, which is
\* that there is no active position, that the text or the profile cannot
\* be extracted, or that a write to the store fails; a run in which
\* nothing fails but calls of the reasoning service ends in success with
\* its candidate persisted.
C19_ErrorOnlyForFatalCause ==
    [][result'.op \in ResumeOps =>
          /\ result'.status \in {"success", "error"}
          /\ result'.status = "error" =>
                 \/ positions = <<>>
                 \/ ~run'.pdfOk
                 \/ ~run'.extractOk
                 \/ ~run'.nameFound \/ run'.dbFails
          /\ (/\ positions # <<>>
              /\ run'.pdfOk /\ run'.extractOk
              /\ run'.nameFound /\ ~run'.dbFails)
                 => /\ result'.status = "success"
                    /\ Len(candidates') = Len(candidates) + 1
                    /\ result'.candidate_id = Len(candidates')]_vars

\* a workflow run that ended persisted although the intention call and
\* every evaluation call raised
C19_Witness ==
    /\ ResumeDone
    /\ result.op = "resume_workflow"
    /\ run.intention.kind = "raise"
    /\ DOMAIN run.evals # {}
    /\ \A p \in DOMAIN run.evals : run.evals[p].kind = "raise"
    /\ result.candidate_id \in CandidateIds

\* C20: in every reachable state no position has the name a pending
\* candidate states as its intention: once the position a candidate named
\* has been created, the candidate is pending no longer.
C20_PendingNamesNoPosition ==
    \A c \in CandidateIds :
        candidates[c].no_matched_position =>
            \A p \in PositionIds :
                positions[p] # candidates[c].explicit_position

\* the step changes the assigned position or the assigned score of
\* candidate c
AssignmentChanged(c) ==
    \/ candidates'[c].auto_matched_position # candidates[c].auto_matched_position
    \/ candidates'[c].auto_matched_position_score
           # candidates[c].auto_matched_position_score

C22_AcceptedCandidateMoved ==
    [][CreateStep =>
          \A c \in ScannedIds(candidates) :
              WouldAccept(reasoning'[c]) =>
                  /\ candidates'[c].auto_matched_position
                         = positions'[Len(positions')]
                  /\ Cardinality({m \in AddedIds(matches, matches') :
                                     /\ matches'[m].candidate_id = c
                                     /\ matches'[m].position_id = Len(positions')})
                         = 1
                  /\ \A m \in AddedIds(matches, matches') :
                         matches'[m].candidate_id = c =>
                             matches'[m].overall_score
                                 = candidates'[c].auto_matched_position_score
                  /\ candidates'[c].reallocation_count
                         = candidates[c].reallocation_count + 1]_vars

\* C23: a manual reassignment of a candidate to a position for which the
\* candidate has no match row returns an error, asks the reasoning service
\* nothing, and leaves the candidate rows (assignment, flags and
\* reallocation_count), the match rows and the history rows as they were.
C23_ReassignNeedsMatchRow ==
    [][(/\ result'.op = "update_candidate_position"
        /\ result'.candidate_id \in CandidateIds
        /\ result'.position_id \in PositionIds
        /\ PairIds(matches, result'.candidate_id, result'.position_id) = {})
          => /\ result'.status = "error"
             /\ reasoning' = <<>>
             /\ run' = NoRun
             /\ UNCHANGED <<candidates, matches, history>>]_vars

\* a refused reassignment to a position created after the candidate's
\* upload, the candidate having a match row for another position
C23_Witness ==
    /\ result.op = "update_candidate_position"
    /\ result.status = "error"
    /\ result.candidate_id \in CandidateIds
    /\ result.position_id \in PositionIds
    /\ PairIds(matches, result.candidate_id, result.position_id) = {}
    /\ RowsOf(matches, result.candidate_id) # <<>>

\* C24: a re-evaluation of a candidate against a position for which the
\* candidate has a match row succeeds, replaces the score and the grade of
\* that row by those of the new evaluation, and leaves every other match
\* row and the number of match rows as they were.  (The step is a
\* re-evaluation that found its candidate and its position, in a state
\* where every candidate has a match row for every position.)
C24_ReevaluationReplacesRow ==
    [][(/\ result'.op = "evaluate_candidate"
        /\ result'.code \notin {"CANDIDATE_NOT_FOUND", "POSITION_NOT_FOUND"}
        /\ \A c \in CandidateIds, p \in PositionIds :
               PairIds(matches, c, p) # {})
          => /\ result'.status = "success"
             /\ Len(matches') = Len(matches)
             /\ \E m \in PairIds(matches, result'.candidate_id,
                                  result'.position_id) :
                    /\ matches'[m].grade
                           = ThresholdGrade(matches'[m].overall_score)
                    /\ \A k \in DOMAIN matches \ {m} :
                           matches'[k] = matches[k]]_vars

\* the match rows of the last resume run that hold the highest score of
\* the run
RunTopIds ==
    {m \in RunMatchIds :
        \A k \in RunMatchIds : matches[k].overall_score <= matches[m].overall_score}

\* C25: when several positions evaluated in a resume run share the highest
\* score, the best position of the run is the first of them in the order
\* the positions are visited: a candidate that is not locked on its named
\* position is assigned to the position of lowest id among those of
\* highest score, whatever the number of positions that share that score.
C25_FirstOfTiedPositions ==
    (ResumeDone /\ ~candidates[result.candidate_id].is_position_locked) =>
        \E m \in RunTopIds :
            /\ \A k \in RunTopIds :
                   matches[m].position_id <= matches[k].position_id
            /\ candidates[result.candidate_id].auto_matched_position
                   = positions[matches[m].position_id]

\* a run in which two positions share the highest score, its candidate
\* assigned to the first of them
C25_Witness ==
    /\ ResumeDone
    /\ ~candidates[result.candidate_id].is_position_locked
    /\ Cardinality(RunTopIds) = 2
    /\ \A m \in RunTopIds : matches[m].overall_score = 90
    /\ candidates[result.candidate_id].auto_matched_position = positions[1]

C27_ChangesListTheChanged ==
    [][CreateStep =>
          /\ \A c \in CandidateIds :
                 Cardinality({i \in DOMAIN result'.changes :
                                 result'.changes[i].candidate_id = c})
                     = IF candidates'[c] # candidates[c] THEN 1 ELSE 0
          /\ \A i \in DOMAIN result'.changes :
                 LET e == result'.changes[i]
                 IN  /\ e.candidate_id \in CandidateIds
                     /\ e.old_position
                            = candidates[e.candidate_id].auto_matched_position
                     /\ e.old_score
                            = candidates[e.candidate_id].auto_matched_position_score
                     /\ e.new_position
                            = candidates'[e.candidate_id].auto_matched_position
                     /\ e.new_score
                            = candidates'[e.candidate_id].auto_matched_position_score]_vars

\* a completed creation whose sweep scanned a candidate, got a sure match
\* for it, left it as it was and lists no change
C27_Witness ==
    /\ result.op = "create_position"
    /\ result.status = "success"
    /\ result.changes = <<>>
    /\ \E c \in DOMAIN reasoning :
           /\ reasoning[c] = MatchReply(TRUE, 9)
           /\ candidates[c].reallocation_count = 0

\* the extraction has been applied
Extracted == extraction.profile # NoCall

\* no name pattern finds a name in the text
NoNameFound ==
    /\ \A i \in DOMAIN extraction.found.patterns :
           extraction.found.patterns[i] = None
    /\ extraction.found.basic_info = None

\* C28: when no name pattern matches the text, the name of the extracted
\* profile is the placeholder and its extraction_quality is 50; when a
\* pattern finds a name, the extraction_quality is 75.
C28_PlaceholderAndLowQuality ==
    Extracted =>
        IF NoNameFound
        THEN /\ extraction.profile.name = Placeholder
             /\ extraction.profile.extraction_quality = 50
        ELSE extraction.profile.name # Placeholder
                 => extraction.profile.extraction_quality = 75

\* C29: every match row, whichever operation wrote it or updated it last,
\* is flagged as qualified exactly when its score is at least 60: the rows
\* of the table, and the row a resume run makes of an evaluation of any
\* score.
C29_QualifiedFromSixty ==
    /\ \A m \in DOMAIN matches :
           matches[m].is_qualified <=> matches[m].overall_score >= 60
    /\ evalCall.row # NoCall =>
           (evalCall.row.is_qualified <=> evalCall.row.overall_score >= 60)

\* the row made of an evaluation of score 60, flagged as qualified
C29_Witness ==
    /\ evalCall.row # NoCall
    /\ evalCall.reply.kind = "json"
    /\ evalCall.row.overall_score = 60
    /\ evalCall.row.is_qualified

\* C30: position names are unique in every reachable state, and a creation
\* that adds no position (its name exists already, as every name does once
\* all of them are taken) returns an error, lists no change and leaves the
\* positions, the candidates, the match rows and the history rows as they
\* were.
C30_PositionNamesUnique ==
    [][/\ \A p, q \in DOMAIN positions' :
              positions'[p] = positions'[q] => p = q
       /\ (/\ result'.op = "create_position"
           /\ \/ ~CreateStep
              \/ \A n \in Names : PositionByName(n) # NoId)
              => /\ result'.status = "error"
                 /\ result'.position_id = NoId
                 /\ result'.changes = <<>>
                 /\ reasoning' = <<>>
                 /\ UNCHANGED <<positions, candidates, matches, history>>]_vars

\* a refused creation in a state where every name is taken and a pending
\* candidate exists
C30_Witness ==
    /\ result.op = "create_position"
    /\ result.status = "error"
    /\ result.code = "CREATE_FAILED"
    /\ \A n \in Names : PositionByName(n) # NoId
    /\ \E c \in CandidateIds : candidates[c].no_matched_position

\* the match rows of candidate c for the position its row names, holding
\* the score its row holds
AssignedMatchIds(c) ==
    {m \in 1..Len(matches) :
        /\ matches[m].candidate_id = c
        /\ matches[m].position_id \in PositionIds
        /\ positions[matches[m].position_id] = candidates[c].auto_matched_position
        /\ matches[m].overall_score = candidates[c].auto_matched_position_score}

\* C31: in every committed state every candidate with an assigned position
\* has a match row for that position whose score is the assigned score; no
\* upload locks a candidate, with the score 60, onto a position its run did
\* not evaluate.
C31_AssignedPositionHasMatchRow ==
    \A c \in CandidateIds :
        candidates[c].auto_matched_position # None => AssignedMatchIds(c) # {}

\* C32: in every committed state the reallocation_count of each candidate
\* is the number of allocation history rows that exist for it, whatever
\* sweeps and manual reassignments were run one after another.
C32_CountIsHistoryRows ==
    \A c \in CandidateIds :
        candidates[c].reallocation_count =
            Cardinality({h \in DOMAIN history : history[h].candidate_id = c})

\* a candidate that was reassigned by hand
C32_Witness ==
    /\ result.op = "update_candidate_position"
    /\ result.status = "success"
    /\ candidates[result.candidate_id].reallocation_count = 1
    /\ \E h \in DOMAIN history :
           /\ history[h].candidate_id = result.candidate_id
           /\ history[h].trigger_event = "MANUAL"

\* the creation of unit u has committed and candidate c states the name of
\* its position as its intention; the reasoning service, where the sweep of
\* u asked it about c, answered with a match of confidence above 0.8
NamedByCandidate(u, c) ==
    /\ units[u].pc = "done"
    /\ candidates[c].has_explicit_position
    /\ candidates[c].explicit_position = units[u].name
    /\ c \in DOMAIN units[u].replies => WouldAccept(units[u].replies[c])

\* C33: when a resume whose intention names N is processed in a session of
\* its own next to the creation of position N, and the matcher accepts N
\* for the intention with confidence above 0.8, then once both have
\* completed the candidate is locked onto N and not pending.
C33_ConcurrentUploadLocked ==
    \A u \in Units, c \in CandidateIds :
        NamedByCandidate(u, c)
            => /\ candidates[c].is_position_locked
               /\ ~candidates[c].no_matched_position
               /\ candidates[c].auto_matched_position = units[u].name

\* the step changes of the row of candidate c at most the assigned
\* position, the assigned score and reallocation_count (the model leaves
\* last_reallocation_at out)
OnlyAssignmentChanged(c) ==
    candidates'[c] =
        [candidates[c] EXCEPT
            !.auto_matched_position = candidates'[c].auto_matched_position,
            !.auto_matched_position_score =
                candidates'[c].auto_matched_position_score,
            !.reallocation_count = candidates'[c].reallocation_count]

\* candidate c was reassigned by hand
ManuallyReassigned(c) ==
    \E h \in DOMAIN history :
        history[h].candidate_id = c /\ history[h].trigger_event = "MANUAL"

\* a manual reassignment of candidate c leaves its flags, and so a pending
\* candidate pending
ManualStepKeepsFlags ==
    \A c \in CandidateIds :
        ManualStep(c) =>
            /\ OnlyAssignmentChanged(c)
            /\ candidates'[c].reallocation_count
                   = candidates[c].reallocation_count + 1
            /\ candidates'[c].is_position_locked
                   = candidates[c].is_position_locked
            /\ candidates'[c].no_matched_position
                   = candidates[c].no_matched_position

\* C34: a manual reassignment changes of a candidate only the assigned
\* position, the assigned score and reallocation_count and leaves is_locked
\* and is_pending as they were; so a pending candidate stays pending, and a
\* later sweep that accepts it (the reasoning service answers a match with
\* a confidence above 0.8) replaces the manually chosen assignment by the
\* new position.
C34_ManualKeepsFlagsSweepReplaces ==
    [][/\ ManualStepKeepsFlags
       /\ CreateStep =>
              \A c \in ScannedIds(candidates) :
                  ManuallyReassigned(c) /\ WouldAccept(reasoning'[c]) =>
                      candidates'[c].auto_matched_position
                          = positions'[Len(positions')]]_vars

\* C35: is_locked is absorbing and is_pending never becomes true after the
\* candidate was created: a locked candidate stays locked under every
\* operation, and is_pending changes only from true to false, in the step
\* of a sweep that locks the candidate.
C35_LockedAbsorbingPendingOnlyCleared ==
    [][\A c \in CandidateIds :
           /\ candidates[c].is_position_locked
                  => candidates'[c].is_position_locked
           /\ ~candidates[c].no_matched_position
                  => ~candidates'[c].no_matched_position
           /\ candidates[c].no_matched_position
                  /\ ~candidates'[c].no_matched_position
                  => /\ CreateStep
                     /\ ~candidates[c].is_position_locked
                     /\ candidates'[c].is_position_locked]_vars

\* a locked candidate that was reassigned by hand and is locked still
C35_Witness ==
    /\ result.op = "update_candidate_position"
    /\ result.status = "success"
    /\ candidates[result.candidate_id].is_position_locked
    /\ ~candidates[result.candidate_id].no_matched_position

\* the step gives candidate c all the effects of an accepted reallocation
\* to the position it creates
AllSweepEffects(c) ==
    /\ candidates'[c].auto_matched_position = positions'[Len(positions')]
    /\ candidates'[c].is_position_locked
    /\ ~candidates'[c].no_matched_position
    /\ candidates'[c].reallocation_count = candidates[c].reallocation_count + 1
    /\ Cardinality({h \in AddedIds(history, history') :
                       history'[h].candidate_id = c}) = 1
    /\ Cardinality({m \in AddedIds(matches, matches') :
                       matches'[m].candidate_id = c}) = 1
    /\ \A m \in AddedIds(matches, matches') :
           matches'[m].candidate_id = c
               => matches'[m].position_id = Len(positions')

\* C36: within a reallocation sweep the effects on one candidate are all
\* or nothing: the candidate gets the new assignment, the flag flip, the
\* count increment, one history row and one match row, or none of them;
\* none when the match-intention call for it fails.
C36_SweepAllOrNothing ==
    [][CreateStep =>
          \A c \in CandidateIds :
              /\ Untouched(c) \/ AllSweepEffects(c)
              /\ (c \in DOMAIN reasoning' /\ reasoning'[c].kind # "json")
                     => Untouched(c)]_vars

\* a sweep in which the match-intention call failed for a candidate, which
\* has none of the effects
C36_Witness ==
    /\ result.op = "create_position"
    /\ result.status = "success"
    /\ \E c \in DOMAIN reasoning :
           /\ reasoning[c].kind = "raise"
           /\ candidates[c].reallocation_count = 0
           /\ ~candidates[c].is_position_locked
           /\ \A h \in DOMAIN history : history[h].candidate_id # c
           /\ \A m \in DOMAIN matches :
                  matches[m].candidate_id = c
                      => matches[m].position_id # result.position_id

\* the last operation was a resume run that got as far as its evaluations
RunEvaluated == result.op \in ResumeOps /\ run.evals # <<>>

\* the decision process_resume makes for the inputs of the last run
ServiceDecision ==
    AllocationDecision(IntentionOrDefault(run.intention), Evaluations(run.evals))

\* the decision the node makes for the same intention, the same
\* evaluations and the same stored positions
NodeDecision ==
    NodeMakeAllocationDecision(
        [CreateResumeState EXCEPT
            !.job_intention = <<IntentionOrDefault(run.intention)>>,
            !.evaluations = Evaluations(run.evals)]).allocation_decision

DecisionFields ==
    {"auto_matched_position", "auto_matched_position_score",
     "is_position_locked", "no_matched_position"}

\* C37: for the same intention, the same evaluations of the positions and
\* the same stored positions the decision node of the workflow and
\* process_resume decide the same assigned position, assigned score,
\* is_locked and is_pending, and the candidate either of them persists
\* holds that decision.
C37_NodeDecidesAsService ==
    RunEvaluated =>
        /\ NodeDecision # <<>>
        /\ \A f \in DecisionFields : NodeDecision[1][f] = ServiceDecision[f]
        /\ ResumeDone =>
               \A f \in DecisionFields :
                   candidates[result.candidate_id][f] = ServiceDecision[f]

\* a run of the workflow that persisted a candidate for whom two positions
\* share the highest score
C37_Witness ==
    /\ result.op = "resume_workflow"
    /\ result.status = "success"
    /\ Len(run.evals) = 2
    /\ Evaluations(run.evals)[1].overall_score
           = Evaluations(run.evals)[2].overall_score
    /\ ~candidates[result.candidate_id].is_position_locked

\* the step is a run of the resume workflow in which a stage before the
\* last sets status to error: the extraction fails, or no position is
\* active and so no evaluation is made
FailedWorkflowStep ==
    /\ result'.op = "resume_workflow"
    /\ ~run'.extractOk \/ positions = <<>>

\* C38: once a stage of the resume workflow has set status to error
\* (extraction failure, no active positions, no evaluations) no later
\* stage writes to the store, and the run ends with status error and
\* candidate_id unset.
C38_FailedWorkflowWritesNothing ==
    [][FailedWorkflowStep =>
          /\ result'.status = "error"
          /\ result'.candidate_id = NoId
          /\ UNCHANGED <<positions, candidates, matches, history, versions,
                         audit>>]_vars

\* a run of the workflow without active positions, whose extraction
\* returned
C38_Witness ==
    /\ result.op = "resume_workflow"
    /\ result.status = "error"
    /\ run.extractOk
    /\ positions = <<>>

====
